---- MODULE Spec2Model ----
(***************************************************************************)
(* Model of src/app.py, the Streamlit chat application with a document     *)
(* cache.  Streamlit re-executes the whole script on every user            *)
(* interaction, so one action of the model is one execution of the script  *)
(* from line 128 to line 337 triggered by one interaction: choosing a      *)
(* model, putting a file into the uploader, clearing the uploader, or      *)
(* submitting a prompt.                                                    *)
(*                                                                         *)
(* Data representation                                                     *)
(*   bytes      sequences of integers 0..255                               *)
(*   text       sequences of code points (the decoded document, "" = <<>>) *)
(*   summaries  sequences of string tokens; the first token of the pending *)
(*              sentinel is "Summary pending"                              *)
(*   None       the string "None" for selected_model, the empty sequence   *)
(*              for an optional file object                                *)
(***************************************************************************)
EXTENDS Integers, Sequences, FiniteSets, TLC

VARIABLES
    messages,               \* st.session_state.messages
    file_content,           \* st.session_state.file_content
    uploaded_file_obj,      \* st.session_state.uploaded_file_obj: <<>> or <<file>>
    selected_model,         \* st.session_state.selected_model
    document_cache,         \* st.session_state.document_cache
    disk,                   \* document_cache.json
    file_uploader_widget,   \* the file held by the uploader widget: <<>> or <<file>>
    uploads,                \* number of files put into the uploader so far (ids, clock)
    lastOp,                 \* history variable: the interaction of the last run and its I/O
    writeFailed,            \* history variable: some write of this session has failed
    everStored              \* history variable: the fingerprints a record was stored for

vars == <<messages, file_content, uploaded_file_obj, selected_model, document_cache,
          disk, file_uploader_widget, uploads, lastOp, writeFailed, everStored>>

-----------------------------------------------------------------------------
(* Bounds of the model *)

MaxUploads == 2
MaxMessages == 4

(* Inputs *)

None == "None"
Placeholder == "--- Select a Model ---"
available_models == {"m1", "m2"}
Options == {Placeholder} \cup available_models

\* the uploaded bytes: b"" ; the UTF-8 encoding of U+00FF ; the single byte 0xFF,
\* which is no UTF-8 and is U+00FF in Latin-1
FileBytes == { <<>>, <<195, 191>>, <<255>> }

Prompts == { "q1" }
NoPrompt == ""

\* what the provider streams for a chat turn: the chunks' contents, then normal
\* end (raises = FALSE) or an exception (raises = TRUE)
Streams ==
    { [chunks |-> <<>>, raises |-> TRUE],
      [chunks |-> << <<"a">> >>, raises |-> TRUE],
      [chunks |-> << <<"a">>, <<>>, <<"b">> >>, raises |-> FALSE] }

\* what the provider answers to the non-streaming summarization request
Completions ==
    { [raises |-> TRUE,  content |-> <<>>],
      [raises |-> FALSE, content |-> <<>>],
      [raises |-> FALSE, content |-> <<" ", "It greets the world.", " ">>] }

\* outcome of open(..., "w") + json.dump: written, open failed, or failed midway
WriteOutcomes == { "ok", "failed", "torn" }

-----------------------------------------------------------------------------
(* Files: io.BytesIO objects with a read position *)

NewFile(id, bytes) == [id |-> id, bytes |-> bytes, pos |-> 0]

\* UploadedFile.name; every upload of the model carries its own name
FileName(f) == <<"file", f.id>>

\* BytesIO.read(): the bytes from the position to the end
ReadBytes(f) == SubSeq(f.bytes, f.pos + 1, Len(f.bytes))

\* the object after read(): the position is at the end
AfterRead(f) == [f EXCEPT !.pos = Len(f.bytes)]

\* UploadedFile.__eq__ compares the file ids; None equals only None
SameFile(a, b) ==
    \/ a = <<>> /\ b = <<>>
    \/ a # <<>> /\ b # <<>> /\ a[1].id = b[1].id

-----------------------------------------------------------------------------
(* Fingerprint and decoding *)

\* hashlib.sha256(file_bytes).hexdigest(): a collision-free digest of the bytes
get_file_hash(file_bytes) == <<"sha256", file_bytes>>

\* bytes.decode("utf-8") for one- and two-byte encodings (all the inputs of the
\* model): [ok, text], ok = FALSE standing for UnicodeDecodeError
RECURSIVE DecodeUtf8(_)
DecodeUtf8(b) ==
    IF b = <<>> THEN [ok |-> TRUE, text |-> <<>>]
    ELSE IF b[1] < 128 THEN
        LET rest == DecodeUtf8(Tail(b))
        IN  [ok |-> rest.ok, text |-> <<b[1]>> \o rest.text]
    ELSE IF b[1] \in 194..223 /\ Len(b) >= 2 /\ b[2] \in 128..191 THEN
        LET rest == DecodeUtf8(Tail(Tail(b)))
        IN  [ok |-> rest.ok, text |-> <<(b[1] - 192) * 64 + (b[2] - 128)>> \o rest.text]
    ELSE [ok |-> FALSE, text |-> <<>>]

\* bytes.decode("latin-1"): every byte is the code point of the same number
DecodeLatin1(b) == [ok |-> \A i \in 1..Len(b) : b[i] \in 0..255, text |-> b]

-----------------------------------------------------------------------------
(* Summaries *)

PendingSummary == <<"Summary pending", ": Select a model to generate.">>
EmptyResponseSummary == <<"Summary could not be generated", ": Empty response.">>
ErrorSummary == <<"Summary could not be generated", ": ", "connection refused">>

\* str.startswith("Summary pending")
StartsWithPending(summary) == Len(summary) >= 1 /\ summary[1] = "Summary pending"

IsSpace(tok) == tok \in {" ", "\n"}

\* str.strip()
RECURSIVE Strip(_)
Strip(s) ==
    IF s = <<>> THEN s
    ELSE IF IsSpace(s[1]) THEN Strip(Tail(s))
    ELSE IF IsSpace(s[Len(s)]) THEN Strip(SubSeq(s, 1, Len(s) - 1))
    ELSE s

\* a variant of summarize_document that reports a failed or empty completion as a
\* pending summary
summarize_document_failure_as_pending(content, model, completion) ==
    IF model = None \/ completion.raises \/ completion.content = <<>>
    THEN [summary |-> PendingSummary, calls |-> IF model = None THEN 0 ELSE 1]
    ELSE [summary |-> Strip(completion.content), calls |-> 1]

\* summarize_document(content, model) with the provider answering `completion`:
\* the summary returned and the number of provider calls made
summarize_document(content, model, completion) ==
    IF model = None THEN [summary |-> PendingSummary, calls |-> 0]
    ELSE IF completion.raises THEN [summary |-> ErrorSummary, calls |-> 1]
    ELSE IF completion.content = <<>> THEN [summary |-> EmptyResponseSummary, calls |-> 1]
    ELSE [summary |-> Strip(completion.content), calls |-> 1]

-----------------------------------------------------------------------------
(* The persisted cache file *)

EmptyStore == [k \in {} |-> None]

AbsentFile == [state |-> "absent", data |-> EmptyStore]
CorruptFile == [state |-> "corrupt", data |-> EmptyStore]
ValidFile(store) == [state |-> "valid", data |-> store]

\* the mapping a reader of the file gets: nothing when the file is absent or torn
PersistedStore(d) == IF d.state = "valid" THEN d.data ELSE EmptyStore

\* json.dump followed by json.load: a record of four strings comes back as it was
JsonRoundTrip(store) ==
    [k \in DOMAIN store |->
        [content |-> store[k].content, summary |-> store[k].summary,
         timestamp |-> store[k].timestamp, filename |-> store[k].filename]]

\* save_cache_to_disk() with the given outcome of the write; the exception of a
\* failed write is caught and only printed
save_cache_to_disk(s, outcome) ==
    LET d == CASE outcome = "ok" -> ValidFile(JsonRoundTrip(s.document_cache))
               [] outcome = "failed" -> s.disk
               [] outcome = "torn" -> CorruptFile
    IN  [s EXCEPT !.disk = d, !.writes = Append(@, outcome)]

\* load_cache_from_disk(): the store is replaced by the file's content when the
\* file exists and parses; otherwise (absent, or json.load raises) it is kept
load_cache_from_disk(s) ==
    IF s.disk.state = "valid" THEN [s EXCEPT !.document_cache = s.disk.data]
    ELSE s

-----------------------------------------------------------------------------
(* One run of the script.  A run works on a record s of the session state,    *)
(* the file, and a log of the I/O of the run:                                 *)
(*   completes  summarization requests sent to the provider                   *)
(*   answers    the provider's answers to the summarization requests, in order*)
(*   streams    streaming chat requests sent to the provider                  *)
(*   writes     the outcomes of the writes of the cache file, in order        *)
(*   upload     what the upload handler did: none, hit, miss, error, removed  *)
(*   chat       what the chat input did: none, rejected, ok, failed           *)
(*   chunks     the chunks received from the stream                           *)
(*   sent       the message list sent with the streaming request              *)
(*   changed    the fingerprints whose record was stored or updated           *)
(* Each handler yields the set of states it can end in, one per behaviour of  *)
(* the environment (provider answer, outcome of the write, exception).        *)

\* the value of selected_model_widget when the user leaves the selectbox alone
\* (lines 150-161: the index is that of the current selection, else 0)
WidgetValue(model) == IF model \in available_models THEN model ELSE Placeholder

\* line 178
SaveAfterUpdate(s, outcome) == save_cache_to_disk(s, outcome)

\* lines 172-178: the summary of document_cache[file_hash] is generated and saved
RegenerateSummary(s, file_hash) ==
    { SaveAfterUpdate(
          [s EXCEPT !.document_cache[file_hash].summary =
                        summarize_document(s.file_content, s.selected_model, c).summary,
                    !.completes =
                        @ + summarize_document(s.file_content, s.selected_model, c).calls,
                    !.answers = Append(@, c),
                    !.changed = @ \cup {file_hash}],
          w) : c \in Completions, w \in WriteOutcomes }

\* line 170: the hash of what read() returns from the tracked upload object
TrackedFileHash(f) == get_file_hash(ReadBytes(f))

\* lines 162-179: the model selection handler
selected_model_handler(s, widget_value) ==
    IF widget_value = Placeholder THEN
        { [s EXCEPT !.selected_model = None] }
    ELSE IF widget_value # s.selected_model THEN
        LET s1 == [s EXCEPT !.selected_model = widget_value]
        IN  IF s1.file_content # <<>> /\ s1.uploaded_file_obj # <<>> THEN
                LET f == s1.uploaded_file_obj[1]
                    file_hash == TrackedFileHash(f)
                    s2 == [s1 EXCEPT !.uploaded_file_obj = <<AfterRead(f)>>]
                IN  IF /\ file_hash \in DOMAIN s2.document_cache
                       /\ StartsWithPending(s2.document_cache[file_hash].summary)
                    THEN RegenerateSummary(s2, file_hash)
                    ELSE { s2 }
            ELSE { s1 }
    ELSE { s }

\* lines 205-218: UTF-8, then Latin-1
DecodeFile(file_bytes) ==
    IF DecodeUtf8(file_bytes).ok THEN DecodeUtf8(file_bytes)
    ELSE DecodeLatin1(file_bytes)

\* lines 214-217 and 242-245: the state after a failed upload
UploadFailed(s) ==
    [s EXCEPT !.file_content = <<>>, !.uploaded_file_obj = <<>>, !.upload = "error"]

\* lines 200-203: the cached content becomes the active content
CacheHit(s, file_hash) ==
    [s EXCEPT !.file_content = s.document_cache[file_hash].content, !.upload = "hit"]

\* lines 231-236: the record stored for a new document
NewRecord(content, summary, now, filename) ==
    [content |-> content, summary |-> summary, timestamp |-> now, filename |-> filename]

\* a variant of SaveAfterInsert that does not write the file
InsertNotSaved(s, outcome) == s

\* line 238
SaveAfterInsert(s, outcome) == save_cache_to_disk(s, outcome)

\* lines 205-239: decode, summarize, store, save
CacheMiss(s, f, file_bytes, file_hash, now) ==
    IF ~DecodeFile(file_bytes).ok THEN { UploadFailed(s) }
    ELSE
        LET s1 == [s EXCEPT !.file_content = DecodeFile(file_bytes).text]
            Stored(c) ==
                LET r == summarize_document(s1.file_content, s1.selected_model, c)
                IN  [s1 EXCEPT
                        !.document_cache =
                            [k \in DOMAIN @ \cup {file_hash} |->
                                IF k = file_hash
                                THEN NewRecord(s1.file_content, r.summary, now, FileName(f))
                                ELSE @[k]],
                        !.completes = @ + r.calls,
                        !.answers = IF r.calls = 1 THEN Append(@, c) ELSE @,
                        !.upload = "miss",
                        !.changed = @ \cup {file_hash},
                        !.everStored = @ \cup {file_hash}]
        IN  { SaveAfterInsert(Stored(c), w) :
                c \in (IF s1.selected_model = None
                       THEN {CHOOSE x \in Completions : TRUE} ELSE Completions),
                w \in WriteOutcomes }

\* lines 195-239: the body of the try block
ProcessUpload(s, f, now) ==
    LET file_bytes == ReadBytes(f)
        file_hash == get_file_hash(file_bytes)
        s1 == [s EXCEPT !.uploaded_file_obj = <<AfterRead(f)>>]
    IN  IF file_hash \in DOMAIN s1.document_cache
        THEN { CacheHit(s1, file_hash) }
        ELSE CacheMiss(s1, f, file_bytes, file_hash, now)

\* lines 247-251: the uploader was cleared
RemoveContext(s) ==
    [s EXCEPT !.uploaded_file_obj = <<>>, !.file_content = <<>>, !.upload = "removed"]

\* lines 192-251: the upload handler; the try block runs to its end or raises
\* an exception, which line 241 catches
file_uploader_handler(s, uploaded_file, now) ==
    IF uploaded_file # <<>> /\ ~SameFile(uploaded_file, s.uploaded_file_obj) THEN
        LET s1 == [s EXCEPT !.uploaded_file_obj = uploaded_file]
        IN  ProcessUpload(s1, uploaded_file[1], now) \cup { UploadFailed(s1) }
    ELSE IF uploaded_file = <<>> /\ s.uploaded_file_obj # <<>> THEN
        { RemoveContext(s) }
    ELSE { s }

-----------------------------------------------------------------------------
(* Chat turn *)

Persona == "You are a helpful AI assistant."

\* the records whose content equals the active content
ContentMatches(s) ==
    { k \in DOMAIN s.document_cache : s.document_cache[k].content = s.file_content }

\* lines 296-303: the first record, in the order of the dict, whose content equals
\* the active content.  The dict keeps the order of insertion (also through the
\* file), and the records are inserted at increasing times.
FirstMatch(s) ==
    CHOOSE k \in ContentMatches(s) :
        \A j \in ContentMatches(s) :
            s.document_cache[k].timestamp <= s.document_cache[j].timestamp

\* lines 294-308: the content of the system message
system_prompt_content(s) ==
    IF s.file_content = <<>> THEN
        [persona |-> Persona, block |-> "none", summary |-> <<>>, context |-> <<>>]
    ELSE IF ContentMatches(s) # {} THEN
        [persona |-> Persona, block |-> "summary and context",
         summary |-> s.document_cache[FirstMatch(s)].summary, context |-> s.file_content]
    ELSE
        [persona |-> Persona, block |-> "context", summary |-> <<>>,
         context |-> s.file_content]

\* a variant of full_context that sends only the newest entry of the history
full_context_newest_only(s) ==
    <<[role |-> "system", content |-> system_prompt_content(s)]>>
        \o SubSeq(s.messages, Len(s.messages), Len(s.messages))

\* lines 293 and 310: the message list sent to the provider
full_context(s) ==
    <<[role |-> "system", content |-> system_prompt_content(s)]>> \o s.messages

\* a variant of Accumulate that puts each chunk in front of the response
RECURSIVE AccumulateNewestFirst(_, _)
AccumulateNewestFirst(full_response, chunks) ==
    IF chunks = <<>> THEN full_response
    ELSE AccumulateNewestFirst(chunks[1] \o full_response, Tail(chunks))

\* lines 315 and 321-324: the response accumulated from the chunks
RECURSIVE Accumulate(_, _)
Accumulate(full_response, chunks) ==
    IF chunks = <<>> THEN full_response
    ELSE Accumulate(IF chunks[1] # <<>> THEN full_response \o chunks[1] ELSE full_response,
                    Tail(chunks))

\* line 290
AppendUser(msgs, prompt) == Append(msgs, [role |-> "user", content |-> prompt])

\* lines 328-331
AppendAssistant(msgs, full_response) ==
    Append(msgs, [role |-> "assistant", content |-> full_response])

\* a variant of Rollback that keeps the user entry
RollbackKeepsUser(msgs) == msgs

\* lines 335-336: the except branch removes the last entry when it is a user entry
Rollback(msgs) ==
    IF msgs # <<>> /\ msgs[Len(msgs)].role = "user"
    THEN SubSeq(msgs, 1, Len(msgs) - 1)
    ELSE msgs

\* lines 283-286: a prompt without a selected model is refused and the script stops
RejectPrompt(s) == [s EXCEPT !.chat = "rejected"]

\* lines 288-337: the turn, the provider behaving as `stream`
ChatTurn(s, prompt, stream) ==
    LET s1 == [s EXCEPT !.messages = AppendUser(@, prompt)]
        s2 == [s1 EXCEPT !.sent = full_context(s1), !.streams = @ + 1,
                         !.chunks = stream.chunks]
    IN  IF stream.raises
        THEN [s2 EXCEPT !.messages = Rollback(@), !.chat = "failed"]
        ELSE [s2 EXCEPT !.messages = AppendAssistant(@, Accumulate(<<>>, stream.chunks)),
                        !.chat = "ok"]

\* lines 282-337
chat_input(s, prompt) ==
    IF prompt = NoPrompt THEN { s }
    ELSE IF s.selected_model = None THEN { RejectPrompt(s) }
    ELSE { ChatTurn(s, prompt, stream) : stream \in Streams }

-----------------------------------------------------------------------------
(* The script, lines 128-337 *)

\* the session state and the file at the start of a run, with an empty log
Session ==
    [messages |-> messages, file_content |-> file_content,
     uploaded_file_obj |-> uploaded_file_obj, selected_model |-> selected_model,
     document_cache |-> document_cache, disk |-> disk,
     completes |-> 0, answers |-> <<>>, streams |-> 0, writes |-> <<>>,
     upload |-> "none", chat |-> "none", chunks |-> <<>>, sent |-> <<>>, changed |-> {},
     everStored |-> everStored]

ScriptRun(s, widget_value, uploaded_file, now, prompt) ==
    UNION { UNION { chat_input(s3, prompt) :
                      s3 \in file_uploader_handler(s2, uploaded_file, now) } :
              s2 \in selected_model_handler(load_cache_from_disk(s), widget_value) }

\* the run's log, kept with the interaction that started the run
OpRecord(kind, model, bytes, prompt, s) ==
    [kind |-> kind, model |-> model, bytes |-> bytes, prompt |-> prompt,
     completes |-> s.completes, answers |-> s.answers, streams |-> s.streams,
     writes |-> s.writes,
     upload |-> s.upload, chat |-> s.chat, chunks |-> s.chunks, sent |-> s.sent,
     changed |-> s.changed]

AnyWriteFailed(s) == \E i \in 1..Len(s.writes) : s.writes[i] # "ok"

\* the variables after a run that ended in s
Commit(s, op) ==
    /\ messages' = s.messages
    /\ file_content' = s.file_content
    /\ uploaded_file_obj' = s.uploaded_file_obj
    /\ selected_model' = s.selected_model
    /\ document_cache' = s.document_cache
    /\ disk' = s.disk
    /\ lastOp' = op
    /\ writeFailed' = (writeFailed \/ AnyWriteFailed(s))
    /\ everStored' = s.everStored

\* a record left in the file by an earlier session that had no model selected
EarlierRecord(bytes) ==
    NewRecord(DecodeFile(bytes).text, PendingSummary, 0, <<"file", 0>>)

EarlierStores ==
    { [k \in {get_file_hash(b)} |-> EarlierRecord(b)] : b \in FileBytes }

Init ==
    /\ disk \in {AbsentFile} \cup { ValidFile(st) : st \in EarlierStores }
    /\ document_cache = PersistedStore(disk)
    /\ messages = <<>>
    /\ file_content = <<>>
    /\ uploaded_file_obj = <<>>
    /\ selected_model = None
    /\ file_uploader_widget = <<>>
    /\ uploads = 0
    /\ lastOp = [kind |-> "Init", model |-> "", bytes |-> <<>>, prompt |-> NoPrompt,
                 completes |-> 0, answers |-> <<>>, streams |-> 0, writes |-> <<>>,
                 upload |-> "none", chat |-> "none", chunks |-> <<>>, sent |-> <<>>,
                 changed |-> {}]
    /\ writeFailed = FALSE
    /\ everStored = DOMAIN document_cache

\* the user chooses an entry of the selectbox other than the one shown
SelectModel ==
    \E v \in Options \ {WidgetValue(selected_model)} :
        \E s \in ScriptRun(Session, v, file_uploader_widget, uploads, NoPrompt) :
            /\ Commit(s, OpRecord("SelectModel", v, <<>>, NoPrompt, s))
            /\ UNCHANGED <<file_uploader_widget, uploads>>

\* the user puts a file into the uploader
Upload ==
    /\ uploads < MaxUploads
    /\ \E b \in FileBytes :
        LET f == <<NewFile(uploads + 1, b)>>
        IN  \E s \in ScriptRun(Session, WidgetValue(selected_model), f, uploads + 1, NoPrompt) :
                /\ Commit(s, OpRecord("Upload", "", b, NoPrompt, s))
                /\ file_uploader_widget' = f
                /\ uploads' = uploads + 1

\* the user clears the uploader
RemoveUpload ==
    /\ file_uploader_widget # <<>>
    /\ \E s \in ScriptRun(Session, WidgetValue(selected_model), <<>>, uploads, NoPrompt) :
            /\ Commit(s, OpRecord("RemoveUpload", "", <<>>, NoPrompt, s))
            /\ file_uploader_widget' = <<>>
            /\ UNCHANGED uploads

\* the user submits a prompt
SubmitPrompt ==
    /\ Len(messages) + 2 <= MaxMessages
    /\ \E p \in Prompts :
        \E s \in ScriptRun(Session, WidgetValue(selected_model), file_uploader_widget,
                           uploads, p) :
            /\ Commit(s, OpRecord("SubmitPrompt", "", <<>>, p, s))
            /\ UNCHANGED <<file_uploader_widget, uploads>>

Next == SelectModel \/ Upload \/ RemoveUpload \/ SubmitPrompt

Spec == Init /\ [][Next]_vars

-----------------------------------------------------------------------------
(* Properties *)

Last(seq) == seq[Len(seq)]

\* the in-order concatenation of the fragments of a stream
RECURSIVE Concat(_)
Concat(chunks) == IF chunks = <<>> THEN <<>> ELSE chunks[1] \o Concat(Tail(chunks))

\* the last run was an Upload, with no model selected, of unseen bytes that decode
\* to a non-empty text: it stored a pending record, wrote the file, and made the
\* document active
UploadedWithoutModel ==
    /\ lastOp.kind = "Upload"
    /\ lastOp.upload = "miss"
    /\ lastOp.writes = <<"ok">>
    /\ selected_model = None
    /\ file_content # <<>>

\* C1: after an Upload of unseen bytes B with no model selected, a SelectModel of a
\* real model makes the summary of the record keyed fingerprint(B) non-pending,
\* writes the store to the file, and leaves the set of keys as it was.
C1_SelectModelResolvesPendingSummary ==
    [][ (UploadedWithoutModel /\ lastOp'.kind = "SelectModel"
            /\ lastOp'.model \in available_models)
        => /\ get_file_hash(lastOp.bytes) \in DOMAIN document_cache'
           /\ ~StartsWithPending(document_cache'[get_file_hash(lastOp.bytes)].summary)
           /\ DOMAIN document_cache' = DOMAIN document_cache
           /\ lastOp'.writes # <<>>
           /\ (Last(lastOp'.writes) = "ok" => PersistedStore(disk') = document_cache')
      ]_vars

\* C2: an Upload of bytes for which a record has been stored before adds no cache
\* entry, so that the number of entries does not grow.
C2_SecondUploadAddsNoEntry ==
    [][ (lastOp'.kind = "Upload" /\ get_file_hash(lastOp'.bytes) \in everStored)
        => /\ DOMAIN document_cache' \subseteq DOMAIN document_cache
           /\ Cardinality(DOMAIN document_cache') <= Cardinality(DOMAIN document_cache)
      ]_vars

\* C3: a SubmitPrompt with a model selected whose streaming call fails, at once or
\* after some fragments, leaves the history as it was before the submission.
C3_FailedStreamRollsBack ==
    [][ (lastOp'.kind = "SubmitPrompt" /\ lastOp'.chat = "failed")
        => messages' = messages ]_vars

C3_Witness ==
    /\ lastOp.kind = "SubmitPrompt"
    /\ lastOp.chat = "failed"
    /\ lastOp.chunks # <<>>
    /\ lastOp.streams = 1
    /\ Len(messages) = 2

\* C4: a SubmitPrompt while no model is selected leaves the history, the cache and
\* the active document as they were and sends no request to the provider (stated
\* for the sessions whose uploader holds the tracked upload, none being retried).
C4_PromptWithoutModelChangesNothing ==
    [][ (/\ lastOp'.kind = "SubmitPrompt"
         /\ selected_model = None
         /\ SameFile(file_uploader_widget, uploaded_file_obj))
        => /\ messages' = messages
           /\ document_cache' = document_cache
           /\ file_content' = file_content
           /\ lastOp'.streams = 0
           /\ lastOp'.completes = 0 ]_vars

\* the fingerprint of the document that is active, if one is
ActiveKeys ==
    IF file_content # <<>> /\ uploaded_file_obj # <<>>
    THEN {get_file_hash(uploaded_file_obj[1].bytes)} ELSE {}

\* C5: after a successful Upload that makes another document the active one (a miss
\* that stores a record, or a hit on a record other than the active one), the
\* history is empty.
C5_UploadOfOtherDocumentClearsHistory ==
    [][ (/\ lastOp'.kind = "Upload"
         /\ file_content' # <<>>
         /\ \/ lastOp'.upload = "miss"
            \/ lastOp'.upload = "hit" /\ get_file_hash(lastOp'.bytes) \notin ActiveKeys)
        => messages' = <<>> ]_vars

\* C6: RemoveUpload of an active document leaves no active document and an empty
\* history; when no document is active it changes neither.
C6_RemoveUploadClearsDocumentAndHistory ==
    [][ lastOp'.kind = "RemoveUpload"
        => /\ file_content' = <<>>
           /\ (file_content # <<>> => messages' = <<>>)
           /\ (file_content = <<>> => messages' = messages) ]_vars

\* C7: a SubmitPrompt with a model selected whose stream completes appends to the
\* history the user entry with the prompt and then the assistant entry with the
\* in-order concatenation of the streamed fragments, and nothing else changes in it.
C7_CompletedTurnAppendsUserThenAssistant ==
    [][ (lastOp'.kind = "SubmitPrompt" /\ lastOp'.chat = "ok")
        => messages' = messages \o
                <<[role |-> "user", content |-> lastOp'.prompt],
                  [role |-> "assistant", content |-> Concat(lastOp'.chunks)]>> ]_vars

C7_Witness ==
    /\ lastOp.kind = "SubmitPrompt"
    /\ lastOp.chat = "ok"
    /\ Len(lastOp.chunks) >= 2
    /\ Len(messages) = 4

\* C8: the file mirrors the store: after a run that stored a record or updated a
\* summary and whose last write succeeded, and in every state of a session in which
\* no write has failed, the persisted mapping is the in-memory mapping.
C8_FileMirrorsStore ==
    /\ ~writeFailed => PersistedStore(disk) = document_cache
    /\ (lastOp.changed # {} /\ lastOp.writes # <<>> /\ Last(lastOp.writes) = "ok")
            => PersistedStore(disk) = document_cache

\* a SelectModel has replaced a pending summary and the write succeeded
C8_Witness ==
    /\ lastOp.kind = "SelectModel"
    /\ lastOp.changed # {}
    /\ lastOp.writes = <<"ok">>
    /\ ~writeFailed
    /\ \E k \in lastOp.changed : ~StartsWithPending(document_cache[k].summary)
    /\ Cardinality(DOMAIN document_cache) >= 2

\* the last run stored or updated a record and its write failed
ChangeNotWritten ==
    /\ lastOp.changed # {}
    /\ lastOp.writes # <<>>
    /\ Last(lastOp.writes) # "ok"

\* C9: when the write after an insert or a summary update has failed, the record
\* stays in the in-memory store, with the summary it was given, through the user
\* actions that follow.
C9_UnwrittenChangeStaysInMemory ==
    [][ ChangeNotWritten
        => \A k \in lastOp.changed :
              /\ k \in DOMAIN document_cache'
              /\ document_cache'[k].content = document_cache[k].content
              /\ (~StartsWithPending(document_cache[k].summary)
                    => document_cache'[k].summary = document_cache[k].summary) ]_vars

\* C10: an Upload whose processing fails while another document is active stores
\* no record and leaves the active document, the tracked upload and the history as
\* they were.
C10_FailedUploadChangesNothing ==
    [][ (lastOp'.kind = "Upload" /\ lastOp'.upload = "error" /\ file_content # <<>>)
        => /\ DOMAIN document_cache' \subseteq DOMAIN document_cache
           /\ file_content' = file_content
           /\ uploaded_file_obj' = uploaded_file_obj
           /\ messages' = messages ]_vars

\* C11: the message list of every SubmitPrompt that reaches the provider is one
\* system message, in the first position, followed by the whole history, the user
\* entry just appended included, in its order and with every entry as it is.
C11_SentIsSystemThenWholeHistory ==
    [][ (lastOp'.kind = "SubmitPrompt" /\ lastOp'.streams = 1)
        => /\ Len(lastOp'.sent) = Len(messages) + 2
           /\ lastOp'.sent[1].role = "system"
           /\ Cardinality({ i \in 1..Len(lastOp'.sent) :
                                lastOp'.sent[i].role = "system" }) = 1
           /\ Tail(lastOp'.sent)
                = messages \o <<[role |-> "user", content |-> lastOp'.prompt]>>
      ]_vars

\* a second turn is sent, with a document active and one turn in the history
C11_Witness ==
    /\ lastOp.kind = "SubmitPrompt"
    /\ lastOp.streams = 1
    /\ Len(lastOp.sent) = 4
    /\ lastOp.sent[2].role = "user"
    /\ lastOp.sent[3].role = "assistant"
    /\ file_content # <<>>

\* C12: a record that is in the store stays in the store, with the content, the
\* filename and the timestamp it has, through every run of the script.
C12_RecordsAreKeptAndWriteOnce ==
    [][ \A k \in DOMAIN document_cache :
            /\ k \in DOMAIN document_cache'
            /\ document_cache'[k].content = document_cache[k].content
            /\ document_cache'[k].filename = document_cache[k].filename
            /\ document_cache'[k].timestamp = document_cache[k].timestamp ]_vars

\* C13: a summary that is not pending is final: no Upload and no SelectModel
\* changes the summary of a record whose summary is not pending, and none sends a
\* summarization request for that record.
C13_NonPendingSummaryIsFinal ==
    [][ lastOp'.kind \in {"Upload", "SelectModel"}
        => \A k \in DOMAIN document_cache :
              ~StartsWithPending(document_cache[k].summary)
              => /\ k \in DOMAIN document_cache'
                    => document_cache'[k].summary = document_cache[k].summary
                 /\ ~(k \in lastOp'.changed /\ lastOp'.completes > 0) ]_vars

\* C14: the system message of a chat turn sent while a document is active carries
\* the full content of the document, and carries a summary only when the summary
\* is not pending (stated for the sessions in which every write has succeeded).
C14_PendingSummaryIsNotSent ==
    (lastOp.kind = "SubmitPrompt" /\ lastOp.streams = 1 /\ file_content # <<>>
        /\ ~writeFailed)
    => /\ lastOp.sent[1].content.context = file_content
       /\ lastOp.sent[1].content.block = "summary and context"
            => ~StartsWithPending(lastOp.sent[1].content.summary)

\* C15: a SubmitPrompt made with a model selected while no document is active sends
\* no request to the provider and leaves the history, the cache and the active
\* document as they were (stated for the sessions whose uploader holds the tracked
\* upload, none being retried).
C15_PromptWithoutDocumentIsRejected ==
    [][ (/\ lastOp'.kind = "SubmitPrompt"
         /\ selected_model # None
         /\ file_content = <<>>
         /\ SameFile(file_uploader_widget, uploaded_file_obj))
        => /\ lastOp'.streams = 0
           /\ lastOp'.chat = "rejected"
           /\ messages' = messages
           /\ document_cache' = document_cache
           /\ file_content' = file_content ]_vars

\* the summaries the provider's texts give
RealSummaries == { Strip(c.content) : c \in { x \in Completions : x.content # <<>> } }

\* the summary is one of the failure texts of summarize_document
IsFailureText(summary) ==
    Len(summary) >= 1 /\ summary[1] = "Summary could not be generated"

\* the last summarization request of the run failed or was answered with no text
SummarizationFailed(op) ==
    /\ op.answers # <<>>
    /\ Last(op.answers).raises \/ Last(op.answers).content = <<>>

\* C16: an Upload whose summarization request fails or is answered with no text
\* still runs to its end: the record is stored with the decoded content and a
\* failure text that is neither the pending sentinel nor a summary, the file is
\* written (and holds the record when the write succeeds), and the decoded content
\* is the active content.
C16_SummarizationFailureStillLoads ==
    [][ (lastOp'.kind = "Upload" /\ SummarizationFailed(lastOp'))
        => LET k == get_file_hash(lastOp'.bytes)
               text == DecodeFile(lastOp'.bytes).text
           IN  /\ lastOp'.upload = "miss"
               /\ k \in DOMAIN document_cache'
               /\ document_cache'[k].content = text
               /\ IsFailureText(document_cache'[k].summary)
               /\ ~StartsWithPending(document_cache'[k].summary)
               /\ document_cache'[k].summary \notin RealSummaries
               /\ file_content' = text
               /\ lastOp'.writes # <<>>
               /\ Last(lastOp'.writes) = "ok"
                    => /\ k \in DOMAIN PersistedStore(disk')
                       /\ PersistedStore(disk')[k] = document_cache'[k] ]_vars

\* both kinds of failure have happened: the request of the last Upload raised, the
\* request of an earlier one was answered with no text; both records are stored
C16_Witness ==
    /\ lastOp.kind = "Upload"
    /\ lastOp.upload = "miss"
    /\ lastOp.answers # <<>>
    /\ Last(lastOp.answers).raises
    /\ lastOp.writes = <<"ok">>
    /\ file_content # <<>>
    /\ document_cache[get_file_hash(lastOp.bytes)].summary = ErrorSummary
    /\ \E k \in DOMAIN document_cache : document_cache[k].summary = EmptyResponseSummary

\* C17: while a document is active, the records whose content is the active
\* content are exactly the record keyed by the fingerprint of the uploaded bytes,
\* and the record the composer and the status display find by content is that one
\* (stated for the sessions in which every write has succeeded).
C17_ActiveContentHasOneRecord ==
    (file_content # <<>> /\ uploaded_file_obj # <<>> /\ ~writeFailed)
    => LET k == get_file_hash(uploaded_file_obj[1].bytes)
       IN  /\ ContentMatches(Session) = {k}
           /\ FirstMatch(Session) = k
           /\ system_prompt_content(Session).summary = document_cache[k].summary

\* C18: between the runs of the script the history has an even length and its
\* entries alternate user, assistant, starting with a user entry.
C18_HistoryAlternates ==
    /\ Len(messages) % 2 = 0
    /\ \A i \in 1..Len(messages) :
          messages[i].role = (IF i % 2 = 1 THEN "user" ELSE "assistant")

\* a stream has failed after a completed turn, with a document active
C18_Witness ==
    /\ lastOp.kind = "SubmitPrompt"
    /\ lastOp.chat = "failed"
    /\ lastOp.streams = 1
    /\ lastOp.sent[Len(lastOp.sent)].role = "user"
    /\ Len(messages) = 2
    /\ file_content # <<>>

\* C19: while a document is active and a model is selected, the summary of the
\* record of the active document is not pending; stated for the states an Upload
\* that hit the cache ends in, in sessions in which every write has succeeded.
C19_ActiveSummaryResolvedWithModel ==
    (/\ lastOp.kind = "Upload"
     /\ lastOp.upload = "hit"
     /\ selected_model # None
     /\ file_content # <<>>
     /\ ~writeFailed)
    => /\ get_file_hash(lastOp.bytes) \in DOMAIN document_cache
       /\ ~StartsWithPending(document_cache[get_file_hash(lastOp.bytes)].summary)

\* C20: an Upload that hits the cache sends no summarization request, writes no
\* file and leaves every record of the store, the file, the history and the
\* selected model as they were.
C20_CacheHitChangesNoRecord ==
    [][ (lastOp'.kind = "Upload" /\ lastOp'.upload = "hit")
        => /\ lastOp'.completes = 0
           /\ lastOp'.streams = 0
           /\ lastOp'.writes = <<>>
           /\ document_cache' = document_cache
           /\ disk' = disk
           /\ messages' = messages
           /\ selected_model' = selected_model ]_vars

====
